---- MODULE Spec2Model ----
(***************************************************************************)
(* Model of server/src/services/realtimeService.ts and                     *)
(* server/src/routes/speechRealtime.ts: the realtime session client, the   *)
(* three orchestrators (recognize, synthesize, synthesize/stream) and the  *)
(* HTTP routes that call them.                                             *)
(*                                                                         *)
(* Time is measured the way the code measures it: Date.now() - startWait   *)
(* inside a poll loop, which grows by the poll interval at each wake-up of *)
(* setTimeout (timers fire when due).  The provider is the environment: it *)
(* may deliver any event, at any moment, on a transport that is open.      *)
(***************************************************************************)
EXTENDS Integers, Sequences, FiniteSets, TLC

(* ------------------------------------------------------------------ *)
(* Bounds of the model                                                 *)
(* ------------------------------------------------------------------ *)
\* audio-delta events the provider delivers on one session
MaxChunks == 2
\* how long two concurrent calls are followed in their wait loops (ms)
MaxPairWaitMs == 300
\* connection.close() / socket.close() / res.end() calls counted per call
MaxCount == 2

(* ------------------------------------------------------------------ *)
(* Program constants                                                   *)
(* ------------------------------------------------------------------ *)
PollMs == 100
RecognizeTimeoutMs == 10000
SynthesizeTimeoutMs == 30000
WavHeaderLen == 44

Calls == {1, 2}

NoValue == "undefined"

(* ------------------------------------------------------------------ *)
(* Buffer.from(delta, 'base64')                                        *)
(* ------------------------------------------------------------------ *)
B64Alphabet ==
  << "A","B","C","D","E","F","G","H","I","J","K","L","M","N","O","P",
     "Q","R","S","T","U","V","W","X","Y","Z","a","b","c","d","e","f",
     "g","h","i","j","k","l","m","n","o","p","q","r","s","t","u","v",
     "w","x","y","z","0","1","2","3","4","5","6","7","8","9","+","/" >>

B64Val(ch) ==
  IF ch = "=" THEN 0
  ELSE (CHOOSE i \in 1..64 : B64Alphabet[i] = ch) - 1

\* one quantum of four characters gives three bytes, fewer when padded
B64Quantum(q) ==
  LET n == B64Val(q[1]) * 262144 + B64Val(q[2]) * 4096
           + B64Val(q[3]) * 64 + B64Val(q[4])
      bytes == << n \div 65536, (n \div 256) % 256, n % 256 >>
      pad == IF q[3] = "=" THEN 2 ELSE IF q[4] = "=" THEN 1 ELSE 0
  IN SubSeq(bytes, 1, 3 - pad)

RECURSIVE Base64Decode(_)
Base64Decode(s) ==
  IF Len(s) < 4 THEN << >>
  ELSE B64Quantum(SubSeq(s, 1, 4)) \o Base64Decode(SubSeq(s, 5, Len(s)))

\* Buffer.concat(list)
RECURSIVE BufferConcat(_)
BufferConcat(list) ==
  IF list = << >> THEN << >>
  ELSE Head(list) \o BufferConcat(Tail(list))

(* ------------------------------------------------------------------ *)
(* createWavHeader                                                     *)
(* ------------------------------------------------------------------ *)
Ascii(ch) ==
  CASE ch = "R" -> 82 [] ch = "I" -> 73 [] ch = "F" -> 70 [] ch = "W" -> 87
    [] ch = "A" -> 65 [] ch = "V" -> 86 [] ch = "E" -> 69 [] ch = "f" -> 102
    [] ch = "m" -> 109 [] ch = "t" -> 116 [] ch = " " -> 32 [] ch = "d" -> 100
    [] ch = "a" -> 97

UInt32LE(v) ==
  << v % 256, (v \div 256) % 256, (v \div 65536) % 256, (v \div 16777216) % 256 >>

\* mutant: 16-bit fields written high byte first
UInt16LE_BigEndian(v) == << (v \div 256) % 256, v % 256 >>

UInt16LE(v) == << v % 256, (v \div 256) % 256 >>

\* mutant: the data size field holds the RIFF chunk size
createWavHeader_RiffSize(dataLength, sampleRate, numChannels, bitsPerSample) ==
     << Ascii("R"), Ascii("I"), Ascii("F"), Ascii("F") >>
  \o UInt32LE(36 + dataLength)
  \o << Ascii("W"), Ascii("A"), Ascii("V"), Ascii("E") >>
  \o << Ascii("f"), Ascii("m"), Ascii("t"), Ascii(" ") >>
  \o UInt32LE(16)
  \o UInt16LE(1)
  \o UInt16LE(numChannels)
  \o UInt32LE(sampleRate)
  \o UInt32LE((sampleRate * numChannels * bitsPerSample) \div 8)
  \o UInt16LE((numChannels * bitsPerSample) \div 8)
  \o UInt16LE(bitsPerSample)
  \o << Ascii("d"), Ascii("a"), Ascii("t"), Ascii("a") >>
  \o UInt32LE(36 + dataLength)

createWavHeader(dataLength, sampleRate, numChannels, bitsPerSample) ==
     << Ascii("R"), Ascii("I"), Ascii("F"), Ascii("F") >>
  \o UInt32LE(36 + dataLength)
  \o << Ascii("W"), Ascii("A"), Ascii("V"), Ascii("E") >>
  \o << Ascii("f"), Ascii("m"), Ascii("t"), Ascii(" ") >>
  \o UInt32LE(16)
  \o UInt16LE(1)
  \o UInt16LE(numChannels)
  \o UInt32LE(sampleRate)
  \o UInt32LE((sampleRate * numChannels * bitsPerSample) \div 8)
  \o UInt16LE((numChannels * bitsPerSample) \div 8)
  \o UInt16LE(bitsPerSample)
  \o << Ascii("d"), Ascii("a"), Ascii("t"), Ascii("a") >>
  \o UInt32LE(dataLength)

(* ------------------------------------------------------------------ *)
(* VOICE_MAP and the voice selection of the two synthesis functions    *)
(* ------------------------------------------------------------------ *)
VoiceKeys ==
  { "Male", "Female", "JennyNeural", "GuyNeural", "AriaNeural", "DavisNeural",
    "JaneNeural", "JasonNeural", "alloy", "echo", "fable", "onyx", "nova",
    "shimmer" }

\* VOICE_MAP is a plain object: a lookup also finds what it inherits from
\* Object.prototype, which is no voice token
PrototypeKeys == { "constructor", "toString" }

VOICE_MAP(k) ==
  CASE k = "Male" -> "echo"
    [] k = "Female" -> "alloy"
    [] k = "JennyNeural" -> "alloy"
    [] k = "GuyNeural" -> "echo"
    [] k = "AriaNeural" -> "nova"
    [] k = "DavisNeural" -> "onyx"
    [] k = "JaneNeural" -> "shimmer"
    [] k = "JasonNeural" -> "fable"
    [] k \in {"alloy", "echo", "fable", "onyx", "nova", "shimmer"} -> k
    [] k \in PrototypeKeys -> "[object member]"
    [] OTHER -> NoValue

\* JavaScript truthiness of an optional string
Truthy(s) == s # NoValue /\ s # ""

\* let selectedVoice = 'alloy'; if (voiceName && VOICE_MAP[voiceName]) ...
SelectVoice(voiceName, voiceGender) ==
  IF Truthy(voiceName) /\ Truthy(VOICE_MAP(voiceName)) THEN VOICE_MAP(voiceName)
  ELSE IF Truthy(voiceGender) /\ Truthy(VOICE_MAP(voiceGender))
       THEN VOICE_MAP(voiceGender)
  ELSE "alloy"

(* ------------------------------------------------------------------ *)
(* State                                                               *)
(* ------------------------------------------------------------------ *)
VARIABLES
  config,      \* config/env: endpoint and key present?, deployment name
  audioChars,  \* statsService's character counter
  crashed,     \* an exception escaped an event listener: the process ended
  admitted,    \* the calls this run makes
  call         \* per call: request body, session client, job, HTTP response

vars == << config, audioChars, crashed, admitted, call >>

Deployments == { NoValue, "gpt-4o-realtime-preview" }
Texts == { NoValue, "", "hi" }
AudioInputs == { NoValue, "", "QUI=" }
\* the voice fields of a request body, << voiceName, voiceGender >>: the
\* protocol runs use one body, the route runs (SpecRoutes) all of them
VoiceBodies == { << "AriaNeural", "Male" >> }
VoiceInputs ==
  { NoValue, "", "AriaNeural", "JennyNeural", "AndrewNeural", "FableNeural",
    "Male", "Female", "male", "female", "neutral", "echo", "constructor" }
Transcripts == { "", "hello" }
Deltas == { << "Q", "Q", "=", "=" >>, << "Q", "U", "I", "=" >> }

\* a call before its request arrives
IdleCall ==
  [ route |-> "none", text |-> NoValue, audioData |-> NoValue,
    voiceName |-> NoValue, voiceGender |-> NoValue,
    selectedVoice |-> NoValue,
    argName |-> NoValue, argGender |-> NoValue,
    pc |-> "idle", outcome |-> "none", errMsg |-> "", result |-> << >>,
    pcmAudioBuffer |-> << >>, resultText |-> "",
    configRead |-> FALSE, variant |-> "none",
    sock |-> "none", wsCreated |-> 0, sockCloseCalls |-> 0, closeCalls |-> 0,
    timer |-> "unset", promise |-> "none", rejectMsg |-> "",
    connection |-> FALSE, listeners |-> << >>, sent |-> << >>,
    sessionCreated |-> FALSE, unparsed |-> FALSE, emptyHeard |-> FALSE,
    thrown |-> FALSE,
    audioChunks |-> << >>, responseDone |-> FALSE,
    sessionConfigured |-> FALSE, transcriptText |-> "",
    elapsed |-> 0,
    resHeadersSent |-> FALSE, resStatus |-> 200, resContentType |-> NoValue,
    resWrites |-> << >>, resBody |-> [kind |-> "none"], resEndCalls |-> 0,
    resWriteAfterEnd |-> FALSE,
    delivered |-> << >>, doneAt |-> -1, doneElapsed |-> -1,
    waited |-> -1, latency |-> -1, ran |-> << >> ]

Bump(n) == IF n < MaxCount THEN n + 1 ELSE n

(* ------------------------------------------------------------------ *)
(* getRealtimeConfig, and the model-family test of createRealtimeClient*)
(* ------------------------------------------------------------------ *)
\* mutant: only the endpoint is required
getRealtimeConfig_EndpointOnly ==
  [ ok |-> config.endpoint,
    deployment |-> IF Truthy(config.deployment) THEN config.deployment
                   ELSE "gpt-realtime" ]

getRealtimeConfig ==
  [ ok |-> config.endpoint /\ config.apiKey,
    deployment |-> IF Truthy(config.deployment) THEN config.deployment
                   ELSE "gpt-realtime" ]

\* deployment.startsWith('gpt-realtime') && !deployment.includes('preview')
isGAModel(deployment) ==
  /\ deployment \in { "gpt-realtime", "gpt-realtime-mini" }
  /\ deployment \notin { "gpt-4o-realtime-preview", "gpt-realtime-preview" }

(* ------------------------------------------------------------------ *)
(* The Express response                                                *)
(* ------------------------------------------------------------------ *)
ResSetHeader(s, contentType) == [s EXCEPT !.resContentType = contentType]

ResWrite(s, buf) ==
  IF s.resEndCalls > 0
  THEN [s EXCEPT !.resHeadersSent = TRUE, !.resWriteAfterEnd = TRUE]
  ELSE [s EXCEPT !.resHeadersSent = TRUE, !.resWrites = Append(@, buf)]

ResEnd(s) == [s EXCEPT !.resHeadersSent = TRUE, !.resEndCalls = Bump(@)]

\* res.status(code).send(body) and res.status(code).json(body)
ResStatusSend(s, code, body) ==
  [s EXCEPT !.resStatus = code, !.resBody = body,
            !.resHeadersSent = TRUE, !.resEndCalls = Bump(@)]

\* res.send(body) / res.json(body)
ResSend(s, body) ==
  [s EXCEPT !.resBody = body, !.resHeadersSent = TRUE, !.resEndCalls = Bump(@)]

(* ------------------------------------------------------------------ *)
(* The session client: on, send, close                                 *)
(* ------------------------------------------------------------------ *)
On(s, ev, h) == [s EXCEPT !.listeners = Append(@, [ev |-> ev, h |-> h])]

RECURSIVE HandlersOf(_, _)
HandlersOf(ls, ev) ==
  IF ls = << >> THEN << >>
  ELSE IF Head(ls).ev = ev THEN << Head(ls).h >> \o HandlersOf(Tail(ls), ev)
  ELSE HandlersOf(Tail(ls), ev)

\* socket.send throws unless the socket is open; a command that went out is
\* kept with the event types that had a handler at that moment
Send(s, cmd) ==
  IF s.thrown THEN s
  ELSE IF s.sock = "open"
  THEN [s EXCEPT !.sent = Append(@,
          [type |-> cmd.type, payload |-> cmd.payload,
           listening |-> { s.listeners[i].ev : i \in 1..Len(s.listeners) }])]
  ELSE [s EXCEPT !.thrown = TRUE, !.errMsg = "WebSocket is not open"]

SocketClose(s) ==
  [s EXCEPT !.sockCloseCalls = Bump(@),
            !.sock = IF @ \in {"connecting", "open"} THEN "closing" ELSE @]

\* connection.close()
ConnectionClose(s) == SocketClose([s EXCEPT !.closeCalls = Bump(@)])

ClearTimeout(s) ==
  [s EXCEPT !.timer = IF @ = "armed" THEN "cleared" ELSE @]

\* mutant: a late resolve overrides the promise's outcome
Resolve_LastWins(s) == [s EXCEPT !.promise = "resolved"]

\* resolve / reject of the promise createRealtimeClient returns: the first wins
Resolve(s) ==
  IF s.promise = "pending" THEN [s EXCEPT !.promise = "resolved"] ELSE s

Reject(s, msg) ==
  IF s.promise = "pending"
  THEN [s EXCEPT !.promise = "rejected", !.rejectMsg = msg]
  ELSE s

(* ------------------------------------------------------------------ *)
(* The handler closures, named by the function that registers them     *)
(* ------------------------------------------------------------------ *)
RunHandler(h, s, ev) ==
  CASE h = "open.sessionCreated" -> Resolve(ClearTimeout(s))
    [] h = "open.errorLog" -> s
    [] h = "openLib.error" -> Reject(ClearTimeout(s), ev.msg)
    [] h = "openLib.sessionCreated" -> Resolve(ClearTimeout(s))
    [] h = "stt.error" -> [s EXCEPT !.thrown = TRUE]
    [] h = "stt.sessionUpdated" -> [s EXCEPT !.sessionConfigured = TRUE]
    [] h = "stt.transcription" -> [s EXCEPT !.transcriptText = ev.transcript]
    [] h = "tts.error" -> [s EXCEPT !.thrown = TRUE]
    [] h = "tts.audioDelta" ->
         [s EXCEPT !.audioChunks = Append(@, Base64Decode(ev.delta))]
    [] h = "tts.done" -> [s EXCEPT !.responseDone = TRUE]
    [] h = "tts.log" -> s
    [] h = "stream.error" ->
         IF ~s.resHeadersSent
         THEN ResStatusSend(s, 500, [kind |-> "text",
                                     text |-> "Synthesis error: " \o ev.msg])
         ELSE s
    [] h = "stream.sessionUpdated" -> [s EXCEPT !.sessionConfigured = TRUE]
    [] h = "stream.audioDelta" -> ResWrite(s, Base64Decode(ev.delta))
    [] h = "stream.done" -> ConnectionClose(ResEnd(s))

\* the handlers invoked so far in the dispatch of one event (a record kept
\* during the dispatch only)
Invoke(h, s, ev) == RunHandler(h, [s EXCEPT !.ran = Append(@, h)], ev)

\* mutant: only the first handler of the list is invoked
RunHandlers_FirstOnly(hs, s, ev) ==
  IF hs = << >> \/ s.thrown THEN s ELSE Invoke(Head(hs), s, ev)

\* handlers.forEach(handler => handler(event)): an exception ends the loop
RECURSIVE RunHandlers(_, _, _)
RunHandlers(hs, s, ev) ==
  IF hs = << >> \/ s.thrown THEN s
  ELSE RunHandlers(Tail(hs), Invoke(Head(hs), s, ev), ev)

\* mutant: a message that does not parse is reported to the 'error' handlers
GaOnMessage_ReportsParseError(s, ev) ==
  LET ty == IF ev.type = "garbage" THEN "error" ELSE ev.type
      s1 == RunHandlers(HandlersOf(s.listeners, ty), s, ev)
  IN IF s1.thrown THEN [s1 EXCEPT !.thrown = FALSE]
     ELSE LET s2 == RunHandlers(HandlersOf(s1.listeners, "server.*"), s1, ev)
          IN [s2 EXCEPT !.thrown = FALSE]

\* socket.on('message') of the hand-built client: parse, dispatch to the
\* handlers of the type, then to those of 'server.*', all inside try/catch
GaOnMessage(s, ev) ==
  IF ev.type = "garbage" THEN s
  ELSE LET s1 == RunHandlers(HandlersOf(s.listeners, ev.type), s, ev)
       IN IF s1.thrown THEN [s1 EXCEPT !.thrown = FALSE]
          ELSE LET s2 == RunHandlers(HandlersOf(s1.listeners, "server.*"), s1, ev)
               IN [s2 EXCEPT !.thrown = FALSE]

\* the client library's emitter: the listeners of the event's type, in order;
\* an exception of a listener is not caught
LibOnMessage(s, ev) ==
  IF ev.type = "garbage" THEN s
  ELSE RunHandlers(HandlersOf(s.listeners, ev.type), s, ev)

(* ------------------------------------------------------------------ *)
(* The routes' continuations                                           *)
(* ------------------------------------------------------------------ *)
ErrorBody(s, title, details) ==
  [kind |-> "json-error", error |-> title, details |-> details]

\* mutant: the catch blocks only log
RouteCatch_LogOnly(s, msg) == s

\* the catch blocks of the three route handlers
RouteCatch(s, msg) ==
  CASE s.route = "recognize" ->
         ResStatusSend(s, 500,
           ErrorBody(s, "Speech recognition failed (Realtime API)", msg))
    [] s.route = "synthesize" ->
         ResStatusSend(s, 500,
           ErrorBody(s, "Speech synthesis failed (Realtime API)", msg))
    [] s.route = "stream" ->
         IF ~s.resHeadersSent
         THEN ResStatusSend(s, 500,
           ErrorBody(s, "Speech synthesis streaming failed (Realtime API)", msg))
         ELSE s

\* the service function threw msg: its promise rejects, the route catches
Throw(s, msg) ==
  RouteCatch([s EXCEPT !.pc = "returned", !.outcome = "error", !.errMsg = msg],
             msg)

CloseIfConnection(s) == IF s.connection THEN ConnectionClose(s) ELSE s

\* catch (and finally) of the three service functions
OrchestratorCatch(s, msg) ==
  CASE s.route = "recognize" ->
         Throw(CloseIfConnection(s), "Speech recognition failed: " \o msg)
    [] s.route = "synthesize" ->
         Throw(CloseIfConnection(s), "Speech synthesis failed: " \o msg)
    [] s.route = "stream" ->
         LET s1 == IF ~s.resHeadersSent
                   THEN ResStatusSend(s, 500,
                          [kind |-> "text", text |-> "Synthesis failed: " \o msg])
                   ELSE s
         IN [CloseIfConnection(s1) EXCEPT !.pc = "returned", !.outcome = "ok",
                                           !.errMsg = msg, !.thrown = FALSE]

\* synthesizeSpeechRealtime after its wait loop saw responseDone
SynthesizeReturn(s) ==
  LET pcmAudioBuffer == BufferConcat(s.audioChunks)
      wavHeader == createWavHeader(Len(pcmAudioBuffer), 24000, 1, 16)
      audioBuffer == wavHeader \o pcmAudioBuffer
      s1 == CloseIfConnection(s)
      s2 == [s1 EXCEPT !.pc = "returned", !.outcome = "ok", !.result = audioBuffer,
                       !.pcmAudioBuffer = pcmAudioBuffer]
  IN ResSend(ResSetHeader(s2, "audio/wav"), [kind |-> "audio", bytes |-> audioBuffer])

\* recognizeSpeechRealtime after its wait loop saw a transcript
RecognizeReturn(s) ==
  LET s1 == CloseIfConnection(s)
      s2 == [s1 EXCEPT !.pc = "returned", !.outcome = "ok",
                       !.resultText = s.transcriptText]
  IN ResSend(s2, [kind |-> "json-text", text |-> s.transcriptText])

(* ------------------------------------------------------------------ *)
(* The service functions after createRealtimeClient resolved           *)
(* ------------------------------------------------------------------ *)
\* mutant: the text item carries the selected voice
ItemCreate_WithVoice(s) == [type |-> "conversation.item.create", payload |-> << s.text, s.selectedVoice >>]

ItemCreate(s) == [type |-> "conversation.item.create", payload |-> s.text]

RecognizeAfterOpen(s) ==
  LET s1 == On(s, "error", "stt.error")
      s2 == On(s1, "session.updated", "stt.sessionUpdated")
      s3 == On(s2, "conversation.item.input_audio_transcription.completed",
               "stt.transcription")
  IN [s3 EXCEPT !.pc = "cfgwait"]

SynthesizeAfterOpen(s) ==
  LET s1 == On(s, "error", "tts.error")
      s2 == On(s1, "response.output_audio.delta", "tts.audioDelta")
      s3 == On(s2, "response.done", "tts.done")
      s4 == On(s3, "server.*", "tts.log")
      s5 == Send(s4, ItemCreate(s))
      s6 == Send(s5, [type |-> "response.create", payload |-> NoValue])
  IN IF s6.thrown THEN OrchestratorCatch([s6 EXCEPT !.thrown = FALSE], s6.errMsg)
     ELSE [s6 EXCEPT !.pc = "poll", !.elapsed = 0]

StreamAfterOpen(s) ==
  LET s1 == On(s, "error", "stream.error")
      s2 == On(s1, "session.updated", "stream.sessionUpdated")
      s3 == On(s2, "response.audio.delta", "stream.audioDelta")
      s4 == On(s3, "response.done", "stream.done")
  IN [s4 EXCEPT !.pc = "cfgwait"]

AfterOpen(s) ==
  CASE s.route = "recognize" -> RecognizeAfterOpen(s)
    [] s.route = "synthesize" -> SynthesizeAfterOpen(s)
    [] s.route = "stream" -> StreamAfterOpen(s)

\* what awaits the promise of createRealtimeClient runs once it settles
Settle(old, s) ==
  LET d == [s EXCEPT !.ran = << >>] IN
  IF old.promise = "pending" /\ d.promise = "resolved"
  THEN AfterOpen([d EXCEPT !.connection = TRUE])
  ELSE IF old.promise = "pending" /\ d.promise = "rejected"
  THEN OrchestratorCatch(d, d.rejectMsg)
  ELSE d

(* ------------------------------------------------------------------ *)
(* createRealtimeClient up to the promise it returns                   *)
(* ------------------------------------------------------------------ *)
ConfigErrorMsg ==
  "Azure OpenAI Realtime endpoint and API key are required for Realtime API"

createRealtimeClient(s) ==
  LET rc == getRealtimeConfig
      s1 == [s EXCEPT !.configRead = TRUE]
  IN IF ~rc.ok THEN OrchestratorCatch(s1, ConfigErrorMsg)
     ELSE IF isGAModel(rc.deployment)
     THEN [s1 EXCEPT !.variant = "ga", !.sock = "connecting",
                     !.wsCreated = Bump(@), !.timer = "armed",
                     !.promise = "pending", !.pc = "open"]
     ELSE LET s2 == On(On(s1, "error", "openLib.error"),
                       "session.created", "openLib.sessionCreated")
          IN [s2 EXCEPT !.variant = "lib", !.sock = "connecting",
                        !.wsCreated = Bump(@), !.timer = "armed",
                        !.promise = "pending", !.pc = "open"]

(* ------------------------------------------------------------------ *)
(* The three service functions up to their first await                 *)
(* ------------------------------------------------------------------ *)
\* mutant: the audio data is not validated before the client is created
recognizeSpeechRealtime_NoValidation(s, audioData) == createRealtimeClient(s)

recognizeSpeechRealtime(s, audioData) ==
  IF ~Truthy(audioData) THEN Throw(s, "No audio data provided")
  ELSE createRealtimeClient(s)

\* mutant: the text is not validated before the client is created
synthesizeSpeechRealtime_NoValidation(s, text, voiceName, voiceGender) ==
  createRealtimeClient(
    [s EXCEPT !.selectedVoice = SelectVoice(voiceName, voiceGender),
               !.argName = voiceName, !.argGender = voiceGender])

synthesizeSpeechRealtime(s, text, voiceName, voiceGender) ==
  IF ~Truthy(text) THEN Throw(s, "No text provided for synthesis")
  ELSE createRealtimeClient(
         [s EXCEPT !.selectedVoice = SelectVoice(voiceName, voiceGender),
               !.argName = voiceName, !.argGender = voiceGender])

synthesizeSpeechStreamRealtime(s, text, voiceName, voiceGender) ==
  IF ~Truthy(text) THEN Throw(s, "No text provided for synthesis")
  ELSE createRealtimeClient(
         ResSetHeader(
           [s EXCEPT !.selectedVoice = SelectVoice(voiceName, voiceGender),
               !.argName = voiceName, !.argGender = voiceGender],
           "audio/pcm"))

\* mutant: the counter counts calls, not characters
RecordedChars_CountsCalls(text) == IF Truthy(text) THEN 1 ELSE 0

\* statsService.recordAudioChars(text.length), reached only past validation
RecordedChars(text) == IF Truthy(text) THEN Len(text) ELSE 0

(* ------------------------------------------------------------------ *)
(* Actions: the routes                                                 *)
(* ------------------------------------------------------------------ *)
CanRequest(c) == ~crashed /\ c <= admitted /\ call[c].pc = "idle"

Put(c, s) == call' = [call EXCEPT ![c] = s]

\* router.post('/recognize')
PostRecognize(c, audioData) ==
  /\ CanRequest(c)
  /\ Put(c, recognizeSpeechRealtime(
              [call[c] EXCEPT !.route = "recognize", !.audioData = audioData],
              audioData))
  /\ UNCHANGED << config, audioChars, crashed, admitted >>

\* router.post('/synthesize')
PostSynthesize(c, text, voiceName, voiceGender) ==
  /\ CanRequest(c)
  /\ Put(c, synthesizeSpeechRealtime(
              [call[c] EXCEPT !.route = "synthesize", !.text = text,
                              !.voiceName = voiceName,
                              !.voiceGender = voiceGender],
              text, voiceGender, voiceName))
  /\ audioChars' = audioChars + RecordedChars(text)
  /\ UNCHANGED << config, crashed, admitted >>

\* router.post('/synthesize/stream')
PostSynthesizeStream(c, text, voiceName, voiceGender) ==
  /\ CanRequest(c)
  /\ Put(c, synthesizeSpeechStreamRealtime(
              [call[c] EXCEPT !.route = "stream", !.text = text,
                              !.voiceName = voiceName,
                              !.voiceGender = voiceGender],
              text, voiceName, voiceGender))
  /\ audioChars' = audioChars + RecordedChars(text)
  /\ UNCHANGED << config, crashed, admitted >>

\* the voiceMapping object GET /info answers with
InfoVoiceKeys ==
  { "JennyNeural", "AndrewNeural", "FableNeural", "male", "female", "neutral" }

InfoVoiceMapping(k) ==
  CASE k = "JennyNeural" -> "alloy"
    [] k = "AndrewNeural" -> "echo"
    [] k = "FableNeural" -> "fable"
    [] k = "male" -> "echo"
    [] k = "female" -> "alloy"
    [] k = "neutral" -> "shimmer"
    [] OTHER -> NoValue

\* router.get('/info')
GetInfo(c) ==
  /\ CanRequest(c)
  /\ Put(c, ResSend([call[c] EXCEPT !.route = "info", !.pc = "returned",
                                    !.outcome = "ok"],
                    [kind |-> "info"]))
  /\ UNCHANGED << config, audioChars, crashed, admitted >>

(* ------------------------------------------------------------------ *)
(* Actions: the transport and the provider                             *)
(* ------------------------------------------------------------------ *)
Event(type, delta, transcript) ==
  [type |-> type, delta |-> delta, transcript |-> transcript,
   msg |-> "provider error"]

AudioDeltaTypes == { "response.output_audio.delta", "response.audio.delta" }

ProviderEvents ==
       { Event(ty, << >>, "") :
           ty \in { "session.created", "session.updated", "response.done",
                    "error", "garbage" } }
  \cup { Event(ty, d, "") : ty \in AudioDeltaTypes, d \in Deltas }
  \cup { Event("conversation.item.input_audio_transcription.completed",
               << >>, tr) : tr \in Transcripts }

\* a synthesis session past Open: the audio it is sent is kept for the record
Recording(s) == s.connection /\ s.route \in {"synthesize", "stream"}

\* what the provider has delivered on the session (a record, not program
\* state): session.created, an unparseable message during a synthesis, an
\* empty transcript during a recognition's wait, the audio-delta events in order,
\* how many of them
\* preceded the first response.done, and the loop's clock at that event
Delivered(s, ev) ==
  [s EXCEPT
     !.sessionCreated = @ \/ ev.type = "session.created",
     !.unparsed = @ \/ (Recording(s) /\ ev.type = "garbage"),
     !.emptyHeard =
        @ \/ (/\ s.pc = "poll" /\ s.route = "recognize"
              /\ ev.type = "conversation.item.input_audio_transcription.completed"
              /\ ~Truthy(ev.transcript)),
     !.delivered = IF Recording(s) /\ ev.type \in AudioDeltaTypes
                   THEN Append(@, [type |-> ev.type, delta |-> ev.delta])
                   ELSE @,
     !.doneAt = IF Recording(s) /\ ev.type = "response.done" /\ @ = -1
                THEN Len(s.delivered) ELSE @,
     !.doneElapsed = IF s.pc = "poll" /\ ev.type = "response.done" /\ @ = -1
                     THEN s.elapsed ELSE @]

\* the process is gone: its clocks mean nothing any more
Crash(s) ==
  [s EXCEPT !.thrown = FALSE, !.elapsed = 0, !.doneElapsed = -1, !.ran = << >>]

\* a wait loop is left: what it measured is kept for the record
LeaveLoop(s, timedOut) ==
  [s EXCEPT !.waited = IF timedOut THEN s.elapsed ELSE -1,
            !.latency = IF ~timedOut /\ s.doneElapsed >= 0
                        THEN s.elapsed - s.doneElapsed ELSE -1,
            !.elapsed = 0, !.doneElapsed = -1]

\* mutant: the promise resolves when the socket opens, not on session.created
SocketOpen_ResolveOnOpen(c) ==
  LET s == call[c] IN
  /\ ~crashed /\ s.sock = "connecting"
  /\ Put(c, Settle(s, Resolve(ClearTimeout([s EXCEPT !.sock = "open"]))))
  /\ UNCHANGED << config, audioChars, crashed, admitted >>

\* socket 'open': socket.on('open') of the hand-built client registers the
\* session.created handler; the library does its own handshake
SocketOpen(c) ==
  LET s == call[c] IN
  /\ ~crashed /\ s.sock = "connecting"
  /\ Put(c, IF s.variant = "ga"
            THEN [On(On(s, "session.created", "open.sessionCreated"),
                     "error", "open.errorLog") EXCEPT !.sock = "open"]
            ELSE [s EXCEPT !.sock = "open"])
  /\ UNCHANGED << config, audioChars, crashed, admitted >>

\* mutant: one listener table for all the clients of the module
ProviderMessage_SharedListeners(c, ev) ==
  /\ ~crashed /\ call[c].sock \in {"open", "closing"}
  /\ Recording(call[c]) /\ ev.type \in AudioDeltaTypes
       => Len(call[c].delivered) < MaxChunks
  /\ call' = [d \in Calls |->
                IF d = c THEN Settle(call[c], GaOnMessage(Delivered(call[c], ev), ev))
                ELSE GaOnMessage(call[d], ev)]
  /\ UNCHANGED << config, audioChars, crashed, admitted >>

\* an inbound message
ProviderMessage(c, ev) ==
  LET s == call[c]
      d == IF s.variant = "ga" THEN GaOnMessage(Delivered(s, ev), ev)
           ELSE LibOnMessage(Delivered(s, ev), ev)
  IN
  /\ ~crashed /\ s.sock \in {"open", "closing"}
  /\ Recording(s) /\ ev.type \in AudioDeltaTypes => Len(s.delivered) < MaxChunks
  /\ IF d.thrown
     THEN crashed' = TRUE /\ Put(c, Crash(d))
     ELSE crashed' = crashed /\ Put(c, Settle(s, d))
  /\ UNCHANGED << config, audioChars, admitted >>

TransportErrorMsg == "transport error"

\* mutant: only the first 'error' listener of the hand-built client exists
TransportError_DispatchOnly(c) ==
  LET s == call[c]
      ev == [Event("error", << >>, "") EXCEPT !.msg = TransportErrorMsg]
      d1 == RunHandlers(HandlersOf(s.listeners, "error"), s, ev)
      e == [d1 EXCEPT !.sock = IF @ = "closed" THEN @ ELSE "closing"]
  IN
  /\ ~crashed /\ s.sock \in {"connecting", "open"}
  /\ IF e.thrown
     THEN crashed' = TRUE /\ Put(c, Crash(e))
     ELSE crashed' = crashed /\ Put(c, Settle(s, e))
  /\ UNCHANGED << config, audioChars, admitted >>

\* socket 'error': the two listeners of the hand-built client in order
\* (dispatch to the 'error' handlers, then clearTimeout/close/reject); the
\* library emits 'error' to its listeners
TransportError(c) ==
  LET s == call[c]
      ev == [Event("error", << >>, "") EXCEPT !.msg = TransportErrorMsg]
      d1 == RunHandlers(HandlersOf(s.listeners, "error"), s, ev)
      d == IF s.variant = "ga" /\ ~d1.thrown
           THEN Reject(SocketClose(ClearTimeout(d1)), TransportErrorMsg)
           ELSE d1
      e == [d EXCEPT !.sock = IF @ = "closed" THEN @ ELSE "closing"]
  IN
  /\ ~crashed /\ s.sock \in {"connecting", "open"}
  /\ IF e.thrown
     THEN crashed' = TRUE /\ Put(c, Crash(e))
     ELSE crashed' = crashed /\ Put(c, Settle(s, e))
  /\ UNCHANGED << config, audioChars, admitted >>

\* socket 'close': no handler is ever registered for 'close'
SocketClosed(c) ==
  LET s == call[c] IN
  /\ ~crashed /\ s.sock \in {"open", "closing"}
  /\ Put(c, [s EXCEPT !.sock = "closed"])
  /\ UNCHANGED << config, audioChars, crashed, admitted >>

(* ------------------------------------------------------------------ *)
(* Actions: timers                                                     *)
(* ------------------------------------------------------------------ *)
\* the 10 s timer of createRealtimeClient fires
OpenTimeout(c) ==
  LET s == call[c]
      f == [s EXCEPT !.timer = "fired"]
      d == IF s.variant = "ga"
           THEN Reject(SocketClose(f),
                  "WebSocket connection timeout - did not receive session.created")
           ELSE Reject(f, "WebSocket connection timeout")
  IN
  /\ ~crashed /\ s.timer = "armed"
  /\ Put(c, Settle(s, d))
  /\ UNCHANGED << config, audioChars, crashed, admitted >>

RecognizeSend(s) ==
  Send(Send(s, [type |-> "input_audio_buffer.append", payload |-> s.audioData]),
       [type |-> "input_audio_buffer.commit", payload |-> NoValue])

\* mutant: the response is requested before the text is sent
StreamSend_ResponseFirst(s) ==
  Send(Send(s, [type |-> "response.create", payload |-> "audio"]), ItemCreate(s))

StreamSend(s) ==
  Send(Send(s, ItemCreate(s)),
       [type |-> "response.create", payload |-> "audio"])

\* the 50 ms sleep of `while (!sessionConfigured)` ends
ConfigWake(c) ==
  LET s == call[c]
      r == RecognizeSend(s)
      w == StreamSend(s)
  IN
  /\ ~crashed /\ s.pc = "cfgwait"
  /\ Put(c,
       IF ~s.sessionConfigured THEN s
       ELSE IF s.route = "recognize"
       THEN IF r.thrown
            THEN OrchestratorCatch([r EXCEPT !.thrown = FALSE], r.errMsg)
            ELSE IF Truthy(r.transcriptText)
            THEN RecognizeReturn([r EXCEPT !.elapsed = 0])
            ELSE [r EXCEPT !.pc = "poll", !.elapsed = 0]
       ELSE IF w.thrown
            THEN OrchestratorCatch([w EXCEPT !.thrown = FALSE], w.errMsg)
            ELSE [w EXCEPT !.pc = "returned", !.outcome = "ok"])
  /\ UNCHANGED << config, audioChars, crashed, admitted >>

\* mutant: the wait loop runs against the recognition deadline
SynthesizePoll_RecognizeDeadline(s) ==
  LET w == [s EXCEPT !.elapsed = @ + PollMs] IN
  IF ~w.responseDone /\ w.elapsed < RecognizeTimeoutMs THEN w
  ELSE IF ~w.responseDone
  THEN OrchestratorCatch(LeaveLoop(w, TRUE),
                         "Synthesis timeout - no response received")
  ELSE SynthesizeReturn(LeaveLoop(w, FALSE))

\* mutant: the deadline is tested before the completion flag
SynthesizePoll_DeadlineFirst(s) ==
  LET w == [s EXCEPT !.elapsed = @ + PollMs] IN
  IF w.elapsed >= SynthesizeTimeoutMs
  THEN OrchestratorCatch(LeaveLoop(w, TRUE),
                         "Synthesis timeout - no response received")
  ELSE IF ~w.responseDone THEN w
  ELSE SynthesizeReturn(LeaveLoop(w, FALSE))

\* mutant: a completed response without audio is a failure
SynthesizePoll_NeedsAudio(s) ==
  LET w == [s EXCEPT !.elapsed = @ + PollMs] IN
  IF ~w.responseDone /\ w.elapsed < SynthesizeTimeoutMs THEN w
  ELSE IF ~w.responseDone \/ w.audioChunks = << >>
  THEN OrchestratorCatch(LeaveLoop(w, TRUE),
                         "Synthesis timeout - no response received")
  ELSE SynthesizeReturn(LeaveLoop(w, FALSE))

\* the wait loop of synthesizeSpeechRealtime after a 100 ms sleep
SynthesizePoll(s) ==
  LET w == [s EXCEPT !.elapsed = @ + PollMs] IN
  IF ~w.responseDone /\ w.elapsed < SynthesizeTimeoutMs THEN w
  ELSE IF ~w.responseDone
  THEN OrchestratorCatch(LeaveLoop(w, TRUE),
                         "Synthesis timeout - no response received")
  ELSE SynthesizeReturn(LeaveLoop(w, FALSE))

\* mutant: the loop's result is returned without the test after the loop
RecognizePoll_NoTestAfterLoop(s) ==
  LET w == [s EXCEPT !.elapsed = @ + PollMs] IN
  IF ~Truthy(w.transcriptText) /\ w.elapsed < RecognizeTimeoutMs THEN w
  ELSE RecognizeReturn(LeaveLoop(w, ~Truthy(w.transcriptText)))

\* the wait loop of recognizeSpeechRealtime after a 100 ms sleep
RecognizePoll(s) ==
  LET w == [s EXCEPT !.elapsed = @ + PollMs] IN
  IF ~Truthy(w.transcriptText) /\ w.elapsed < RecognizeTimeoutMs THEN w
  ELSE IF ~Truthy(w.transcriptText)
  THEN OrchestratorCatch(LeaveLoop(w, TRUE),
                         "Transcription timeout - no response received")
  ELSE RecognizeReturn(LeaveLoop(w, FALSE))

PollWake(c) ==
  LET s == call[c] IN
  /\ ~crashed /\ s.pc = "poll"
  /\ Put(c, IF s.route = "synthesize" THEN SynthesizePoll(s)
            ELSE RecognizePoll(s))
  /\ UNCHANGED << config, audioChars, crashed, admitted >>

(* ------------------------------------------------------------------ *)
(* Specification                                                       *)
(* ------------------------------------------------------------------ *)
Configs ==
  [endpoint : BOOLEAN, apiKey : BOOLEAN, deployment : Deployments]

Init ==
  /\ config \in Configs
  /\ audioChars = 0
  /\ crashed = FALSE
  /\ admitted = 1
  /\ call = [c \in Calls |-> IdleCall]

Request(c) ==
  \/ \E a \in AudioInputs : PostRecognize(c, a)
  \/ \E t \in Texts, v \in VoiceBodies : PostSynthesize(c, t, v[1], v[2])
  \/ \E t \in Texts, v \in VoiceBodies : PostSynthesizeStream(c, t, v[1], v[2])

Timers(c) == OpenTimeout(c) \/ ConfigWake(c) \/ PollWake(c)

Next ==
  \E c \in Calls :
    \/ Request(c)
    \/ SocketOpen(c)
    \/ \E ev \in ProviderEvents : ProviderMessage(c, ev)
    \/ TransportError(c)
    \/ SocketClosed(c)
    \/ Timers(c)

Spec == Init /\ [][Next]_vars

\* the routes alone, over every pair of voice fields: a request selects its
\* voice before anything else happens
NextRoutes ==
  \E c \in Calls :
    \/ \E t \in Texts, n \in VoiceInputs, g \in VoiceInputs :
         \/ PostSynthesize(c, t, n, g)
         \/ PostSynthesizeStream(c, t, n, g)
    \/ GetInfo(c)

SpecRoutes == Init /\ [][NextRoutes]_vars

\* two synthesize calls at once, each on its own session of the hand-built
\* client, with a provider that answers both; the calls are followed for the
\* first polls of their wait loops
InitPair ==
  /\ config = [endpoint |-> TRUE, apiKey |-> TRUE, deployment |-> NoValue]
  /\ audioChars = 0
  /\ crashed = FALSE
  /\ admitted = 2
  /\ call = [c \in Calls |-> IdleCall]

PairEvents ==
       { Event(ty, << >>, "") : ty \in { "session.created", "response.done" } }
  \cup { Event(ty, d, "") : ty \in AudioDeltaTypes, d \in Deltas }

NextPair ==
  \E c \in Calls :
    \/ \E v \in VoiceBodies : PostSynthesize(c, "hi", v[1], v[2])
    \/ SocketOpen(c)
    \/ \E ev \in PairEvents : ProviderMessage(c, ev)
    \/ /\ call[c].responseDone \/ call[c].elapsed < MaxPairWaitMs
       /\ PollWake(c)

SpecPair == InitPair /\ [][NextPair]_vars

\* two requests of any kind at once, under any configuration, each followed
\* through Open (success, timeout, transport error), its commands and the
\* first polls of its wait loop
InitCalls ==
  /\ config \in Configs
  /\ audioChars = 0
  /\ crashed = FALSE
  /\ admitted = 2
  /\ call = [c \in Calls |-> IdleCall]

OpenEvents ==
       { Event(ty, << >>, "") :
           ty \in { "session.created", "session.updated", "response.done" } }
  \cup { Event("conversation.item.input_audio_transcription.completed",
               << >>, "hello") }

NextCalls ==
  \E c \in Calls :
    \/ Request(c)
    \/ GetInfo(c)
    \/ SocketOpen(c)
    \/ \E ev \in OpenEvents : ProviderMessage(c, ev)
    \/ TransportError(c)
    \/ OpenTimeout(c)
    \/ ConfigWake(c)
    \/ /\ call[c].responseDone \/ Truthy(call[c].transcriptText)
          \/ call[c].elapsed < MaxPairWaitMs
       /\ PollWake(c)

SpecCalls == InitCalls /\ [][NextCalls]_vars

\* two synthesis requests at once, over several texts and voice fields, each
\* followed through Open, its commands and the first polls of its wait loop
VoiceTexts == { "hi", "bye" }
VoiceChoices ==
  { << "AriaNeural", "Male" >>, << "JennyNeural", "Female" >>,
    << NoValue, "constructor" >> }

InitVoices ==
  /\ config \in { k \in Configs : k.endpoint /\ k.apiKey }
  /\ audioChars = 0
  /\ crashed = FALSE
  /\ admitted = 2
  /\ call = [c \in Calls |-> IdleCall]

NextVoices ==
  \E c \in Calls :
    \/ \E t \in VoiceTexts, v \in VoiceChoices : PostSynthesize(c, t, v[1], v[2])
    \/ \E t \in VoiceTexts, v \in VoiceChoices :
         PostSynthesizeStream(c, t, v[1], v[2])
    \/ SocketOpen(c)
    \/ \E ev \in OpenEvents : ProviderMessage(c, ev)
    \/ ConfigWake(c)
    \/ /\ call[c].responseDone \/ call[c].elapsed < MaxPairWaitMs
       /\ PollWake(c)

SpecVoices == InitVoices /\ [][NextVoices]_vars

\* Node's event loop runs every timer that is due
FairSpec == Spec /\ \A c \in Calls : WF_vars(Timers(c))

(* ------------------------------------------------------------------ *)
(* Claims                                                              *)
(* ------------------------------------------------------------------ *)
Ended(s) == s.pc = "returned"

\* C1: a call whose Session was opened has invoked Close on it exactly once
\* when the call has ended, whatever the exit path, and never twice; and a
\* call opens at most one Session.
C1_CloseExactlyOnce ==
  \A c \in Calls :
    /\ call[c].wsCreated <= 1
    /\ call[c].closeCalls <= 1
    /\ call[c].connection /\ Ended(call[c]) => call[c].closeCalls = 1

SynthesisTimeoutMsg ==
  "Speech synthesis failed: Synthesis timeout - no response received"

\* C2: non-streaming synthesize never waits past the 30 s deadline, and when
\* it has ended on a Session on which no response.done was delivered, it has
\* failed with the synthesis-timeout error, after waiting at least 30 s and
\* at most one 100 ms poll interval more, with the Session closed (Close
\* invoked once, the transport no longer open).
C2_SynthesisTimeout ==
  \A c \in Calls :
    LET s == call[c] IN
    s.route = "synthesize" =>
      /\ s.pc = "poll" => s.elapsed < SynthesizeTimeoutMs
      /\ Ended(s) /\ s.connection /\ s.doneAt = -1 =>
           /\ s.outcome = "error" /\ s.errMsg = SynthesisTimeoutMsg
           /\ s.waited >= SynthesizeTimeoutMs
           /\ s.waited <= SynthesizeTimeoutMs + PollMs
           /\ s.closeCalls = 1 /\ s.sock \in {"closing", "closed"}

C2_Witness ==
  \E c \in Calls :
    /\ call[c].route = "synthesize" /\ Ended(call[c])
    /\ call[c].errMsg = SynthesisTimeoutMsg
    /\ call[c].waited = SynthesizeTimeoutMs /\ call[c].closeCalls = 1

\* C3: a recognize call whose Open succeeded eventually ends (a transcript or
\* the recognition-timeout error), whatever the provider sends or does not.
C3_RecognizeTerminates ==
  \A c \in Calls :
    (call[c].route = "recognize" /\ call[c].connection) ~> Ended(call[c])

\* C4: a synthesizeStreaming call whose Open succeeded eventually has sent
\* its two commands, ended the sink and closed the Session.
C4_StreamingFinishes ==
  \A c \in Calls :
    (call[c].route = "stream" /\ call[c].connection)
      ~> (/\ Len(call[c].sent) = 2
          /\ call[c].resEndCalls >= 1 /\ call[c].closeCalls >= 1)

RECURSIVE DecodeAll(_)
DecodeAll(evs) ==
  IF evs = << >> THEN << >>
  ELSE Base64Decode(Head(evs).delta) \o DecodeAll(Tail(evs))

PcmOf(wav) == SubSeq(wav, WavHeaderLen + 1, Len(wav))

\* C5: when non-streaming synthesize returns audio, its PCM portion (after
\* the 44-byte header) is the concatenation, in delivery order, of the
\* decoded chunks of all audio-delta events delivered on its Session before
\* the completion event.
C5_PcmIsDeliveredChunks ==
  \A c \in Calls :
    LET s == call[c] IN
    s.route = "synthesize" /\ s.outcome = "ok" =>
      PcmOf(s.result) = DecodeAll(SubSeq(s.delivered, 1, s.doneAt))

\* C6: no command has been sent on a Session whose session.created event has
\* not been observed.
C6_NoCommandBeforeReady ==
  \A c \in Calls : call[c].sent # << >> => call[c].sessionCreated

C6_Witness ==
  \E c \in Calls : Len(call[c].sent) = 2 /\ call[c].sessionCreated

\* C7: when the 10 s timer of Open has fired, Open has failed with a
\* connection-timeout error, the Session was not handed to the orchestrator,
\* and the transport was closed, in both variants of Open.
C7_OpenTimeoutClosesTransport ==
  \A c \in Calls :
    LET s == call[c] IN
    s.timer = "fired" =>
      /\ s.promise = "rejected" /\ ~s.connection
      /\ s.rejectMsg \in
           { "WebSocket connection timeout - did not receive session.created",
             "WebSocket connection timeout" }
      /\ s.sockCloseCalls >= 1 /\ s.sock \in {"closing", "closed"}

\* C8: synthesize and synthesizeStreaming called with empty text fail with
\* the input-validation error: the configuration was not read, no WebSocket
\* was constructed, no command was sent, the counter was not touched.
C8_EmptyTextFailsBeforeSession ==
  \A c \in Calls :
    LET s == call[c] IN
    s.route \in {"synthesize", "stream"} /\ ~Truthy(s.text) =>
      /\ Ended(s) /\ s.outcome = "error"
      /\ s.errMsg = "No text provided for synthesis"
      /\ ~s.configRead /\ s.wsCreated = 0 /\ s.sock = "none"
      /\ s.promise = "none" /\ s.sent = << >>

C8_Witness ==
  \E c \in Calls :
    /\ call[c].route = "stream" /\ call[c].text = ""
    /\ call[c].outcome = "error" /\ call[c].resStatus = 500

\* C9: recognize called with empty audio data fails with the input-validation
\* error: the configuration was not read and no WebSocket was constructed.
C9_EmptyAudioFailsBeforeSession ==
  \A c \in Calls :
    LET s == call[c] IN
    s.route = "recognize" /\ ~Truthy(s.audioData) =>
      /\ Ended(s) /\ s.outcome = "error"
      /\ s.errMsg = "No audio data provided"
      /\ ~s.configRead /\ s.wsCreated = 0 /\ s.sock = "none"
      /\ s.promise = "none" /\ s.sent = << >>

C9_Witness ==
  \E c \in Calls :
    /\ call[c].route = "recognize" /\ call[c].audioData = ""
    /\ call[c].outcome = "error" /\ call[c].resStatus = 500

\* the lookup the interface documents: name first, then gender, then default
NameFirstLookup(name, gender) ==
  IF name \in VoiceKeys THEN VOICE_MAP(name)
  ELSE IF gender \in VoiceKeys THEN VOICE_MAP(gender)
  ELSE "alloy"

\* C10: POST /synthesize and POST /synthesize/stream select, for the same
\* body, the same voice token: the one of the name-first lookup on
\* (voiceName, voiceGender).
C10_RoutesSelectSameVoice ==
  \A c \in Calls :
    LET s == call[c] IN
    s.route \in {"synthesize", "stream"} /\ Truthy(s.text) =>
      s.selectedVoice = NameFirstLookup(s.voiceName, s.voiceGender)

Tokens == { "alloy", "echo", "fable", "onyx", "nova", "shimmer" }

\* a synthesis function that has resolved its voice
Resolved(s) == s.route \in {"synthesize", "stream"} /\ Truthy(s.text)

\* C11: the voice a synthesis function selects from its parameters (name,
\* genderFallback) is the token of name when name is a key of the table, else
\* the token of genderFallback when that is a key, else alloy.
C11_LookupOrder ==
  \A c \in Calls :
    LET s == call[c] IN
    Resolved(s) => s.selectedVoice = NameFirstLookup(s.argName, s.argGender)

\* C12: for every key of the mapping GET /info advertises, the resolver
\* returns the advertised token when the key is given as the name, and when
\* it is given as the gender fallback with no name.
C12_AdvertisedMappingResolves ==
  \A c \in Calls :
    LET s == call[c] IN
    Resolved(s) =>
      /\ s.argName \in InfoVoiceKeys =>
           s.selectedVoice = InfoVoiceMapping(s.argName)
      /\ s.argName = NoValue /\ s.argGender \in InfoVoiceKeys =>
           s.selectedVoice = InfoVoiceMapping(s.argGender)

\* C13: whatever the pair (name, genderFallback), absent, empty or any
\* string, the selected voice is one of the six tokens, and an input that is
\* no key of the table gives nothing but alloy unless the other one is a key.
C13_AlwaysAToken ==
  \A c \in Calls :
    LET s == call[c] IN
    Resolved(s) =>
      /\ s.selectedVoice \in Tokens
      /\ s.argName \notin VoiceKeys /\ s.argGender \notin VoiceKeys =>
           s.selectedVoice = "alloy"

\* the 32-bit little-endian value of four bytes
LE32(b) == b[1] + 256 * b[2] + 65536 * b[3] + 16777216 * b[4]

\* PCM lengths the bounded runs do not reach
WavLengths == { 0, 1, 255, 256, 65535, 65536, 16777215, 16777216, 2147483000 }

\* C14: the WAV-framed result of synthesize over the PCM bytes p has length
\* 44 + len(p), starts with "RIFF", has "WAVE" at bytes 8-11, carries len(p)
\* as the 32-bit little-endian value at offset 40, and from offset 44 on it
\* is p, byte for byte; the header does so for larger lengths too.
C14_WavFraming ==
  \A c \in Calls :
    LET s == call[c]
        p == s.pcmAudioBuffer
        w == s.result
    IN
    s.route = "synthesize" /\ s.outcome = "ok" =>
      /\ Len(w) = 44 + Len(p)
      /\ SubSeq(w, 1, 4) = << 82, 73, 70, 70 >>
      /\ SubSeq(w, 9, 12) = << 87, 65, 86, 69 >>
      /\ LE32(SubSeq(w, 41, 44)) = Len(p)
      /\ SubSeq(w, 45, Len(w)) = p
      /\ \A n \in WavLengths :
            LET h == createWavHeader(n, 24000, 1, 16) IN
            Len(h) = 44 /\ LE32(SubSeq(h, 41, 44)) = n

C14_Witness ==
  \E c \in Calls :
    /\ call[c].route = "synthesize" /\ call[c].outcome = "ok"
    /\ Len(call[c].pcmAudioBuffer) = 3 /\ Len(call[c].result) = 47

ErrorEvent == Event("error", << >>, "")

\* C15: a provider-sent error event delivered while synthesize waits for the
\* response does not abort it: the process goes on, the call is still
\* waiting, it has not failed, and its chunks, its completion flag and its
\* clock are what they were, so that a later response.done completes it.
C15_ErrorEventDoesNotAbort ==
  [][\A c \in Calls :
       (/\ call[c].route = "synthesize" /\ call[c].pc = "poll"
        /\ ProviderMessage(c, ErrorEvent))
       => /\ ~crashed'
          /\ call'[c].pc = "poll" /\ call'[c].outcome = "none"
          /\ call'[c].audioChunks = call[c].audioChunks
          /\ call'[c].responseDone = call[c].responseDone
          /\ call'[c].elapsed = call[c].elapsed]_vars

\* a call whose input passes the validation of its service function
ValidCall(s) ==
  \/ s.route = "recognize" /\ Truthy(s.audioData)
  \/ s.route \in {"synthesize", "stream"} /\ Truthy(s.text)

\* C16: with the endpoint or the API key missing, a call that passes
\* validation has ended with the configuration error (thrown by recognize and
\* synthesize, answered as 500 on the sink by synthesizeStreaming) and no
\* WebSocket was constructed, no Session opened, no command sent.
C16_ConfigErrorBeforeConnection ==
  \A c \in Calls :
    LET s == call[c] IN
    ~(config.endpoint /\ config.apiKey) /\ ValidCall(s) =>
      /\ Ended(s) /\ s.configRead
      /\ s.wsCreated = 0 /\ s.sock = "none" /\ s.promise = "none"
      /\ s.timer = "unset" /\ ~s.connection /\ s.sent = << >>
      /\ s.route = "recognize" =>
           /\ s.outcome = "error"
           /\ s.errMsg = "Speech recognition failed: " \o ConfigErrorMsg
      /\ s.route = "synthesize" =>
           /\ s.outcome = "error"
           /\ s.errMsg = "Speech synthesis failed: " \o ConfigErrorMsg
      /\ s.route = "stream" =>
           /\ s.resStatus = 500
           /\ s.resBody = [kind |-> "text",
                           text |-> "Synthesis failed: " \o ConfigErrorMsg]

C16_Witness ==
  \E c \in Calls :
    /\ config.endpoint /\ ~config.apiKey
    /\ call[c].route = "recognize" /\ call[c].audioData = "QUI="
    /\ call[c].errMsg = "Speech recognition failed: " \o ConfigErrorMsg

RecognitionTimeoutMsg ==
  "Speech recognition failed: Transcription timeout - no response received"

\* C17: a request to POST /synthesize or POST /recognize is never answered
\* twice and not before its service function has ended; when that function
\* has failed the answer is status 500 with a body carrying error and
\* details (the failure's message); when it has succeeded the answer is the
\* result with status 200.
C17_AnsweredExactlyOnce ==
  \A c \in Calls :
    LET s == call[c] IN
    s.route \in {"synthesize", "recognize"} =>
      /\ s.resEndCalls <= 1
      /\ ~Ended(s) => s.resEndCalls = 0 /\ s.resBody.kind = "none"
      /\ Ended(s) /\ s.outcome = "error" =>
           /\ s.resEndCalls = 1 /\ s.resStatus = 500
           /\ s.resBody.kind = "json-error"
           /\ s.resBody.error \in
                { "Speech recognition failed (Realtime API)",
                  "Speech synthesis failed (Realtime API)" }
           /\ s.resBody.details = s.errMsg
      /\ Ended(s) /\ s.outcome = "ok" =>
           /\ s.resEndCalls = 1 /\ s.resStatus = 200
           /\ s.route = "synthesize" =>
                s.resBody = [kind |-> "audio", bytes |-> s.result]
           /\ s.route = "recognize" =>
                s.resBody = [kind |-> "json-text", text |-> s.resultText]

C17_Witness ==
  \E c \in Calls :
    /\ call[c].route = "recognize" /\ Ended(call[c])
    /\ call[c].errMsg = RecognitionTimeoutMsg
    /\ call[c].resStatus = 500 /\ call[c].resEndCalls = 1

\* the events delivered on a call's own Session that its job subscribes to
OwnChunks(s) ==
  SelectSeq(s.delivered, LAMBDA e : e.type = "response.output_audio.delta")

\* C18: with two synthesize calls running at once, each on its own Session,
\* under every interleaving of the two Sessions' events: the chunks a call
\* has accumulated are the decoded chunks its own Session delivered to its
\* handler, in order; its completion flag is set only if its own Session
\* delivered response.done; and the audio it returns is made of its own
\* Session's chunks, none of them the other's.
C18_SessionsIndependent ==
  \A c \in Calls :
    LET s == call[c]
        own == OwnChunks(s)
    IN
    s.route = "synthesize" =>
      /\ s.audioChunks = [i \in 1..Len(own) |-> Base64Decode(own[i].delta)]
      /\ s.responseDone => s.doneAt >= 0
      /\ s.outcome = "ok" =>
           \E k \in 0..Len(own) :
             /\ PcmOf(s.result) = DecodeAll(SubSeq(own, 1, k))
             /\ s.doneAt >= 0

C18_Witness ==
  /\ call[1].outcome = "ok" /\ call[2].outcome = "ok"
  /\ Len(PcmOf(call[1].result)) = 1 /\ Len(PcmOf(call[2].result)) = 4
  /\ call[1].doneAt = 1 /\ call[2].doneAt = 2

\* the chunks delivered as response.audio.delta before the completion event
DocumentedChunks(s) ==
  SelectSeq(SubSeq(s.delivered, 1, s.doneAt),
            LAMBDA e : e.type = "response.audio.delta")

\* a occurs in b, in order
RECURSIVE IsSubsequence(_, _)
IsSubsequence(a, b) ==
  IF a = << >> THEN TRUE
  ELSE IF b = << >> THEN FALSE
  ELSE IF Head(a) = Head(b) THEN IsSubsequence(Tail(a), Tail(b))
  ELSE IsSubsequence(a, Tail(b))

\* C19: when non-streaming synthesize returns audio, the chunks its Session
\* delivered as response.audio.delta events before response.done are all in
\* the returned audio, in delivery order.
C19_DocumentedDeltasReturned ==
  \A c \in Calls :
    LET s == call[c] IN
    s.route = "synthesize" /\ s.outcome = "ok" =>
      IsSubsequence(DecodeAll(DocumentedChunks(s)), PcmOf(s.result))

C21_ErrorEventDuringOpen ==
  [][\A c \in Calls :
       call[c].promise = "pending" /\ ProviderMessage(c, ErrorEvent)
       => /\ ~crashed'
          /\ call'[c].promise = "pending" /\ call'[c].timer = "armed"
          /\ call'[c].pc = "open"]_vars

\* the handlers the Session's dispatch invokes for an inbound message
Invoked(s, ev) ==
  (IF s.variant = "ga" THEN GaOnMessage(s, ev) ELSE LibOnMessage(s, ev)).ran

\* a Session on which a message can arrive
Receiving(s) == s.sock \in {"open", "closing"}

ParsedEvents == { ev \in ProviderEvents : ev.type # "garbage" }

\* C22: every inbound message that parses as an event, whatever its type, is
\* delivered to the handlers registered for its type and then to every
\* handler registered under 'server.*'.
C22_WildcardGetsEveryEvent ==
  \A c \in Calls :
    LET s == call[c] IN
    Receiving(s) =>
      \A ev \in ParsedEvents :
        Invoked(s, ev) = HandlersOf(s.listeners, ev.type)
                           \o HandlersOf(s.listeners, "server.*")

\* C23: when an inbound message of type T arrives, the handlers registered
\* for T are invoked once each, in the order of their registration, before
\* any other handler, and the only other handlers invoked are those of
\* 'server.*': no handler of another specific type is.
C23_HandlersInRegistrationOrder ==
  \A c \in Calls :
    LET s == call[c] IN
    Receiving(s) =>
      \A ev \in ParsedEvents :
        LET own == HandlersOf(s.listeners, ev.type)
            all == HandlersOf(s.listeners, "server.*")
            ran == Invoked(s, ev)
        IN /\ Len(ran) >= Len(own)
           /\ SubSeq(ran, 1, Len(own)) = own
           /\ \A i \in (Len(own) + 1)..Len(ran) :
                \E j \in 1..Len(all) : ran[i] = all[j]

C23_Witness ==
  \E c \in Calls :
    /\ call[c].route = "synthesize" /\ call[c].pc = "poll"
    /\ call[c].variant = "ga"
    /\ HandlersOf(call[c].listeners, "error") = << "open.errorLog", "tts.error" >>
    /\ Invoked(call[c], ErrorEvent) = << "open.errorLog", "tts.error" >>

\* the commands of an operation, in the order the protocol wants them
Commands(route) ==
  IF route = "recognize"
  THEN << "input_audio_buffer.append", "input_audio_buffer.commit" >>
  ELSE << "conversation.item.create", "response.create" >>

\* the events that carry an operation's result
ResultEvents(route) ==
  CASE route = "recognize" ->
         { "conversation.item.input_audio_transcription.completed" }
    [] route = "synthesize" -> { "response.output_audio.delta", "response.done" }
    [] route = "stream" -> { "response.audio.delta", "response.done" }

\* C24: in every orchestrator the commands sent so far are a prefix of the
\* operation's two commands in their order (the first before the second,
\* none twice), and when each went out the handlers of the operation's
\* result events were already registered.
C24_HandlersThenCommandsInOrder ==
  \A c \in Calls :
    LET s == call[c] IN
    s.sent # << >> =>
      /\ Len(s.sent) <= 2
      /\ \A i \in 1..Len(s.sent) :
           /\ s.sent[i].type = Commands(s.route)[i]
           /\ ResultEvents(s.route) \subseteq s.sent[i].listening

C24_Witness ==
  \E c \in Calls :
    /\ call[c].route = "recognize" /\ call[c].pc = "poll"
    /\ Len(call[c].sent) = 2
    /\ call[c].sent[2].type = "input_audio_buffer.commit"

\* the chunks the job's handler received before the completion event
ChunksBeforeDone(s) ==
  SelectSeq(SubSeq(s.delivered, 1, s.doneAt),
            LAMBDA e : e.type = "response.output_audio.delta")

\* C25: in a Synthesis Job the completion flag, once true, stays true, and
\* from then on the chunk sequence is final: an audio-delta event delivered
\* after the completion event adds nothing to it, so that the audio returned
\* is made of the chunks received before the completion event only.
C25_ChunksFinalOnceDone ==
  /\ [][\A c \in Calls :
          call[c].route = "synthesize" /\ call[c].responseDone
          => /\ call'[c].responseDone
             /\ call'[c].audioChunks = call[c].audioChunks]_vars
  /\ [](\A c \in Calls :
          call[c].route = "synthesize" /\ call[c].outcome = "ok"
          => call[c].pcmAudioBuffer = DecodeAll(ChunksBeforeDone(call[c])))

\* C26: once response.done has been delivered to a synthesize call in its
\* wait loop (so before the 30 s deadline), the loop's clock does not advance
\* again before the call returns: the next step of the call, unless it is
\* another inbound message or the end of the process, is its return, with
\* WAV-framed audio, never the timeout error, at most one poll interval
\* after the event.
C26_DoneMeansAudioWithinOnePoll ==
  /\ [](\A c \in Calls :
          call[c].route = "synthesize" /\ call[c].pc = "poll"
            /\ call[c].doneAt >= 0 /\ ~crashed
          => call[c].responseDone /\ call[c].elapsed = call[c].doneElapsed)
  /\ [][\A c \in Calls :
          (/\ call[c].route = "synthesize" /\ call[c].pc = "poll"
           /\ call[c].doneAt >= 0 /\ ~crashed'
           /\ call'[c].elapsed # call[c].elapsed \/ call'[c].pc # "poll")
          => /\ Ended(call'[c]) /\ call'[c].outcome = "ok"
             /\ call'[c].latency >= 0 /\ call'[c].latency <= PollMs
             /\ SubSeq(call'[c].result, 1, 4) = << 82, 73, 70, 70 >>
             /\ call'[c].resStatus = 200]_vars

C26_Witness ==
  \E c \in Calls :
    /\ call[c].route = "synthesize" /\ call[c].outcome = "ok"
    /\ call[c].latency = PollMs /\ Len(call[c].result) = 46

\* the decoded chunks of a sequence of audio-delta events, one per event
RECURSIVE DecodeEach(_)
DecodeEach(evs) ==
  IF evs = << >> THEN << >>
  ELSE << Base64Decode(Head(evs).delta) >> \o DecodeEach(Tail(evs))

\* the audio-delta events delivered before the completion event, or so far
BeforeDone(s) ==
  IF s.doneAt >= 0 THEN SubSeq(s.delivered, 1, s.doneAt) ELSE s.delivered

\* C27: in synthesizeStreaming what has been written to the sink is, chunk
\* for chunk and in delivery order, the audio-delta events delivered on the
\* Session before the completion event; the sink has been ended once that
\* event has arrived; and write is never called on the ended sink.
C27_StreamWritesEachChunkOnce ==
  \A c \in Calls :
    LET s == call[c] IN
    s.route = "stream" /\ s.connection =>
      /\ s.resWrites = DecodeEach(BeforeDone(s))
      /\ s.doneAt >= 0 => s.resEndCalls >= 1
      /\ ~s.resWriteAfterEnd

\* C28: once a transcription-completed event has recorded a transcript in a
\* Recognition Job, no later event changes it, and the text recognize
\* returns is that first recorded value.
C28_TranscriptSetOnce ==
  [][\A c \in Calls :
       call[c].route = "recognize" /\ Truthy(call[c].transcriptText)
       => /\ call'[c].transcriptText = call[c].transcriptText
          /\ Ended(call'[c]) /\ call'[c].outcome = "ok"
               => call'[c].resultText = call[c].transcriptText]_vars

\* C29: on a Session that was closed no handler is invoked any more: for
\* every message that can still arrive the dispatch invokes nothing, and so
\* the job (chunks, completion flag, transcript, sink) is not changed.
C29_NoHandlerAfterClose ==
  \A c \in Calls :
    LET s == call[c] IN
    s.closeCalls >= 1 /\ Receiving(s) =>
      \A ev \in ParsedEvents : Invoked(s, ev) = << >>

\* what one call has added to the character counter
Counted(s) ==
  IF s.route \in {"synthesize", "stream"} /\ Truthy(s.text)
  THEN Len(s.text) ELSE 0

\* C30: the character counter is the sum, over the synthesize and
\* synthesizeStreaming calls made, of the length of their text, whatever has
\* become of the calls since (success, timeout, failure) and however two
\* concurrent calls interleave; recognize and GET /info add nothing.
C30_CounterIsSumOfTextLengths ==
  audioChars = Counted(call[1]) + Counted(call[2])

C30_Witness ==
  /\ audioChars = 4
  /\ call[1].route = "synthesize" /\ call[1].outcome = "error"
  /\ call[1].timer = "fired"
  /\ call[2].route = "stream" /\ call[2].pc = "cfgwait"

\* C31: with the deployment identifier missing from the configuration, a
\* call that passes validation has ended with a configuration error and no
\* WebSocket was constructed, as with a missing endpoint or key.
C31_MissingDeploymentIsConfigError ==
  \A c \in Calls :
    LET s == call[c] IN
    ~Truthy(config.deployment) /\ ValidCall(s) =>
      /\ Ended(s) /\ s.wsCreated = 0 /\ s.sock = "none"
      /\ s.promise = "none" /\ s.variant = "none"

\* the 16-bit little-endian value of two bytes
LE16(b) == b[1] + 256 * b[2]

\* the values writeUInt32LE and writeUInt16LE accept, for the values below
\* 2^31 considered here; any other value makes them throw, and then no
\* header is written
FitsUInt32(v) == v >= 0 /\ v <= 2147483647
FitsUInt16(v) == v >= 0 /\ v <= 65535

\* (sampleRate, numChannels, bitsPerSample) with bitsPerSample a multiple of 8
WavFormats ==
  ({ 8000, 24000, 48000 } \X { 1, 2 } \X { 8, 16, 24, 32 })
    \cup { << 44100, 2, 16 >>, << 1, 8191, 64 >>, << 192000, 8, 32 >> }

\* the header fields, for the data lengths and formats above
WavHeaderFieldsHold ==
  \A n \in WavLengths : \A f \in WavFormats :
        LET byteRate == (f[1] * f[2] * f[3]) \div 8
            blockAlign == (f[2] * f[3]) \div 8
            h == createWavHeader(n, f[1], f[2], f[3])
        IN
        /\ f[3] % 8 = 0
        /\ FitsUInt32(36 + n) /\ FitsUInt32(byteRate) /\ FitsUInt16(blockAlign) =>
             /\ Len(h) = WavHeaderLen
             /\ LE32(SubSeq(h, 5, 8)) = 36 + n
             /\ LE16(SubSeq(h, 21, 22)) = 1
             /\ LE32(SubSeq(h, 29, 32)) = byteRate
             /\ LE16(SubSeq(h, 33, 34)) = blockAlign
             /\ \A i \in 1..Len(h) : h[i] \in 0..255

Wire(s) == [i \in 1..Len(s.sent) |-> [type |-> s.sent[i].type, payload |-> s.sent[i].payload]]

OpenFailures ==
  { "WebSocket connection timeout - did not receive session.created",
    "WebSocket connection timeout", TransportErrorMsg, "provider error" }

\* C34: the outcome of Open is decided at most once: a decided promise keeps
\* its outcome and its failure message; a failed Open has reported one
\* failure and its Session is never handed to the orchestrator, whatever
\* arrives later (a session-created event included); a successful Open has
\* reported no failure and its 10 s timer is cleared and stays so, so that
\* it never fires and never closes the transport.
C34_OpenDecidedOnce ==
  /\ [][\A c \in Calls :
          /\ call[c].promise \in { "resolved", "rejected" } =>
                /\ call'[c].promise = call[c].promise
                /\ call'[c].rejectMsg = call[c].rejectMsg
          /\ call[c].promise = "rejected" =>
                ~call'[c].connection /\ call'[c].pc = call[c].pc
          /\ call[c].promise = "resolved" => call'[c].timer = "cleared"]_vars
  /\ [](\A c \in Calls :
          /\ call[c].promise = "rejected" =>
                /\ call[c].rejectMsg \in OpenFailures
                /\ ~call[c].connection /\ Ended(call[c])
          /\ call[c].promise = "resolved" =>
                /\ call[c].rejectMsg = "" /\ call[c].timer = "cleared"
                /\ call[c].sessionCreated)

\* a session-created event was delivered to its handler after Open had timed
\* out, and the Session was not handed over
C34_Witness ==
  \E c \in Calls :
    /\ call[c].promise = "rejected" /\ call[c].timer = "fired"
    /\ call[c].sessionCreated /\ call[c].sock = "closing"
    /\ HandlersOf(call[c].listeners, "session.created") # << >>
    /\ ~call[c].connection

Unparseable == Event("garbage", << >>, "")

\* C35: on the hand-built client an inbound message that does not parse as
\* JSON invokes no handler, specific or wildcard, raises nothing and changes
\* nothing of the call: the operation goes on, the registry is what it was,
\* and every well-formed message after it is dispatched to the same handlers
\* with the same effect as without it.
C35_UnparseableIgnored ==
  \A c \in Calls :
    LET s == call[c]
        d == GaOnMessage(Delivered(s, Unparseable), Unparseable)
    IN
    ~crashed /\ s.variant = "ga" /\ Receiving(s) =>
      /\ Invoked(s, Unparseable) = << >>
      /\ ~d.thrown
      /\ d = [s EXCEPT !.unparsed = d.unparsed]
      /\ Settle(s, d) = d
      /\ \A ev \in ParsedEvents :
           /\ Invoked(d, ev) = Invoked(s, ev)
           /\ GaOnMessage(d, ev) = [GaOnMessage(s, ev) EXCEPT !.unparsed = d.unparsed]

\* a synthesis that received an unparseable message while it waited and
\* returned its audio all the same
C35_Witness ==
  \E c \in Calls :
    /\ call[c].variant = "ga" /\ call[c].unparsed
    /\ call[c].route = "synthesize" /\ call[c].outcome = "ok"
    /\ Len(call[c].pcmAudioBuffer) > 0

\* C36: recognize never returns an empty string: a successful call carries a
\* non-empty transcript, and a wait loop that ends without one (every
\* transcript delivered so far being empty counts as none) ends at the 10 s
\* deadline with the recognition-timeout error.
C36_NeverReturnsEmpty ==
  /\ [][\A c \in Calls :
          (/\ call[c].route = "recognize" /\ call[c].pc = "poll"
           /\ call'[c].pc # "poll" /\ ~crashed'
           /\ ~Truthy(call[c].transcriptText)) =>
             /\ call'[c].outcome = "error"
             /\ call'[c].errMsg = RecognitionTimeoutMsg
             /\ call'[c].waited = RecognizeTimeoutMs
             /\ call'[c].resStatus = 500]_vars
  /\ [](\A c \in Calls :
          call[c].route = "recognize" /\ call[c].outcome = "ok" =>
            call[c].resultText # "" /\ Truthy(call[c].resultText))

\* an empty transcript was delivered during the wait and the call failed
\* with the timeout error at the deadline
C36_Witness ==
  \E c \in Calls :
    /\ call[c].route = "recognize" /\ call[c].emptyHeard
    /\ call[c].outcome = "error" /\ call[c].errMsg = RecognitionTimeoutMsg
    /\ call[c].waited = RecognizeTimeoutMs

\* C37: synthesize succeeds on the completion event alone: a wait loop left
\* with the response complete and no audio chunk accumulated returns
\* successfully, and the result is exactly the 44-byte header, with 0 in the
\* data-length field and 36 in the chunk-size field; a successful synthesize
\* has always seen the completion event.
C37_DoneWithoutAudioSucceeds ==
  /\ [][\A c \in Calls :
          (/\ call[c].route = "synthesize" /\ call[c].pc = "poll"
           /\ call[c].responseDone /\ call[c].audioChunks = << >>
           /\ call'[c].pc # "poll" /\ ~crashed') =>
             /\ call'[c].outcome = "ok" /\ call'[c].resStatus = 200
             /\ call'[c].result = createWavHeader(0, 24000, 1, 16)
             /\ call'[c].resBody = [kind |-> "audio", bytes |-> call'[c].result]]_vars
  /\ [](\A c \in Calls :
          LET s == call[c] IN
          s.route = "synthesize" /\ s.outcome = "ok" =>
            /\ s.responseDone
            /\ s.pcmAudioBuffer = << >> =>
                 /\ Len(s.result) = WavHeaderLen
                 /\ LE32(SubSeq(s.result, 41, 44)) = 0
                 /\ LE32(SubSeq(s.result, 5, 8)) = 36)

\* the completion event came before any audio and the call returned the
\* bare header
C37_Witness ==
  \E c \in Calls :
    /\ call[c].route = "synthesize" /\ call[c].outcome = "ok"
    /\ call[c].doneAt = 0 /\ call[c].delivered = << >>
    /\ Len(call[c].result) = WavHeaderLen /\ call[c].resStatus = 200

\* C38: the response of a POST /synthesize/stream request is started at most
\* once and ended at most once, whichever of the error handler, the
\* completion handler and the two catch blocks act and whatever the provider
\* sends: no step sets status 500 once audio was written or the response
\* was ended, and res.end / res.send is invoked at most once.
C38_StreamRespondsOnce ==
  /\ [][\A c \in Calls :
          (/\ call[c].route = "stream"
           /\ call[c].resWrites # << >> \/ call[c].resEndCalls > 0) =>
             /\ call'[c].resStatus = call[c].resStatus
             /\ call'[c].resBody = call[c].resBody]_vars
  /\ [](\A c \in Calls :
          call[c].route = "stream" =>
            /\ call[c].resEndCalls <= 1
            /\ call[c].resStatus = 500 => call[c].resWrites = << >>)

====
